---- MODULE Spec2Model ----
(***************************************************************************)
(* Plum ecoMAX integration: the config-entry migration, the setup, unload  *)
(* and alert dispatch of __init__.py, the persisted-record accessors,      *)
(* capability discovery and refresh of connection.py, and the target-      *)
(* device resolution, parameter services and schedule services of          *)
(* services.py.                                                            *)
(*                                                                         *)
(* Python strings the code takes apart (model names, registry identifiers) *)
(* are sequences of one-character strings; a dict is a function whose      *)
(* DOMAIN is the set of keys present.                                      *)
(***************************************************************************)
EXTENDS Integers, Sequences, FiniteSets, TLC

VARIABLES
    entry,            \* the ConfigEntry: [version, data]
    device,           \* the live controller: product, sub-devices, data snapshot
    migrate_pc,       \* position of async_migrate_entry
    migrate_data,     \* its local `data`
    migrate_result,   \* "none" while running, then "True" / "False"
    migrate_session,  \* the connection the run opened: "none" / "open" / "closed"
    migrate_entry0,   \* history: the entry when the run started
    migrate_applied,  \* history: <<from, to>> of every version assignment of the run
    migrate_updates,  \* history: calls of async_update_entry in the run
    migrate_timeouts, \* history: device queries of the run that timed out
    migrate_runs,     \* runs started so far
    setup_pc,         \* position of async_setup_entry: "idle" / "connect" /
                      \* "get_device" / "ready" / "failed_unload"
    setup_log,        \* history: the steps the last run of async_setup_entry completed
    conn_device,      \* EcomaxConnection._device: "None" / "device"
    sessions,         \* one per EcomaxConnection that async_setup_entry made:
                      \* [state: "new" / "open" / "closed", closes: calls of close()]
    hass_data,        \* hass.data[DOMAIN][entry_id]: index into sessions, 0 if absent
    stop_listener,    \* the connection the EVENT_HOMEASSISTANT_STOP listener closes, 0 if none
    hass_state,       \* "running" / "stopped"
    hass_services,    \* the services registered under DOMAIN
    alert_subscribed, \* the connection whose device has the alert callback, 0 if none
    platforms,        \* whether the entry is forwarded to PLATFORMS
    refresh_pc,       \* per caller: position of async_update_device_capabilities
    refresh_data,     \* per caller: its local `data`
    refresh_result,   \* per caller: "none" / "ok" / "TimeoutError" / "ConfigEntryNotReady"
    refresh_entry0,   \* history, per caller: the entry when the refresh started, None before
    discover_result,  \* what a call of async_get_device_capabilities gave
    registry,         \* the ids the device registry knows
    target_id,        \* the device id async_extract_target_device was given
    target_result,    \* what it returned, or the error it raised
    call_pc,          \* position of a get/set-parameter service call
    call_data,        \* the service ("none" / "get" / "set"), service_call.data,
                      \* and whether the devices of the call resolved
    call_devices,     \* its `devices`: the set of resolved target devices
    call_state,       \* per device: "waiting" / "pending" / "answered"
    call_outcome,     \* history: what each device answered
    call_values,      \* what the per-device helper returned, in call order
    call_result,      \* what the service call returned or raised
    schedules,        \* the device's ATTR_SCHEDULES: per type, per weekday, the intervals
    device_schedules, \* the schedules as last committed to the controller
    sched_pc,         \* "idle" / "set_done" / "done"
    sched_call,       \* the schedule service called and its service_call.data
    sched_log,        \* history: the calls the service made on the schedule object
    sched_result,     \* what the schedule service returned or raised
    sched_schedules0, \* history: `schedules` when the service was called
    conn_kind,        \* the transport of the connection: "tcp" / "serial"
    alert_batch,      \* history: the alerts of the last change dispatched
    alert_fired,      \* the events that dispatch fired on the bus
    alert_device,     \* history: the registry device that dispatch found, or None
    alert_dropped,    \* history: an earlier change found no registry device
    device_answers,   \* whether the device answers the calls made to it
    format_input,     \* the name format_model_name is applied to
    formatted         \* its result, and the result of applying it to that result

migrate_vars ==
    << migrate_pc, migrate_data, migrate_result, migrate_session, migrate_entry0,
       migrate_applied, migrate_updates, migrate_timeouts, migrate_runs >>
lifecycle_vars ==
    << sessions, hass_data, stop_listener, hass_state, hass_services, alert_subscribed,
       platforms, setup_log >>
connection_vars ==
    << setup_pc, conn_device, lifecycle_vars, refresh_pc, refresh_data, refresh_result,
       refresh_entry0 >>
discover_vars == << discover_result >>
resolve_vars == << registry, target_id, target_result >>
service_vars ==
    << call_pc, call_data, call_devices, call_state, call_outcome, call_values,
       call_result >>

schedule_vars ==
    << schedules, device_schedules, sched_pc, sched_call, sched_log, sched_result,
       sched_schedules0 >>

format_vars == << format_input, formatted >>

\* the service handlers, which migration, setup, refresh and discovery leave alone
alert_vars == << conn_kind, alert_batch, alert_fired, alert_device, alert_dropped >>
handler_vars == << service_vars, schedule_vars, alert_vars >>

\* what the get_parameter and set_parameter services do not touch
outside_service ==
    << entry, device, device_answers, format_vars, migrate_vars, connection_vars, discover_vars, resolve_vars,
       schedule_vars, alert_vars >>

\* what the get_schedule and set_schedule services do not touch
outside_schedule ==
    << entry, device, device_answers, format_vars, migrate_vars, connection_vars, discover_vars, resolve_vars,
       service_vars, alert_vars >>

\* what the dispatch of an alert change does not touch
outside_alerts ==
    << entry, device, device_answers, format_vars, migrate_vars, connection_vars, discover_vars, resolve_vars,
       service_vars, schedule_vars >>

\* what async_migrate_entry does not touch
outside_migrate == << connection_vars, discover_vars, resolve_vars, handler_vars >>

vars ==
    << entry, device, device_answers, format_vars, migrate_vars, connection_vars, discover_vars, resolve_vars,
       handler_vars >>

----------------------------------------------------------------------------
(* Bounds *)

\* migration runs one behaviour starts
MaxRuns == 2
\* mixers of a device snapshot carry the indexes 0 .. MaxMixers - 1
MaxMixers == 2
\* setups of the entry one behaviour starts
MaxSetups == 2
\* alerts of one change
MaxAlerts == 2
\* characters of a name format_model_name is applied to
MaxNameLen == 6
\* concurrent callers of async_update_device_capabilities
MaxCallers == 2
RefreshCallers == 1 .. MaxCallers
\* no call of async_update_device_capabilities is under way
RefreshIdle == \A c \in RefreshCallers : refresh_pc[c] = "idle"
\* device ids the entities of one service call refer to
MaxSelected == 3

----------------------------------------------------------------------------
(* Characters and strings *)

UpperCase ==
    { "A", "B", "C", "D", "E", "F", "G", "H", "I", "J", "K", "L", "M",
      "N", "O", "P", "Q", "R", "S", "T", "U", "V", "W", "X", "Y", "Z" }
LowerCase ==
    { "a", "b", "c", "d", "e", "f", "g", "h", "i", "j", "k", "l", "m",
      "n", "o", "p", "q", "r", "s", "t", "u", "v", "w", "x", "y", "z" }
\* [A-Z] under re.IGNORECASE
IsLetter(c) == c \in UpperCase \cup LowerCase
\* [0-9]
IsDigit(c) == c \in { "0", "1", "2", "3", "4", "5", "6", "7", "8", "9" }
\* \s (the names of the model hold no other whitespace than the blank)
IsSpace(c) == c = " "

\* how many consecutive characters of s, from position i on, are letters
RECURSIVE LetterRun(_, _)
LetterRun(s, i) ==
    IF i <= Len(s) /\ IsLetter(s[i]) THEN 1 + LetterRun(s, i + 1) ELSE 0
RECURSIVE SpaceRun(_, _)
SpaceRun(s, i) ==
    IF i <= Len(s) /\ IsSpace(s[i]) THEN 1 + SpaceRun(s, i + 1) ELSE 0
RECURSIVE DigitRun(_, _)
DigitRun(s, i) ==
    IF i <= Len(s) /\ IsDigit(s[i]) THEN 1 + DigitRun(s, i + 1) ELSE 0

\* the least number of digits group 2 of the pattern takes: [0-9]{3,}
MinModelDigits == 3

EM == << "E", "M" >>
ecoMAX == << "e", "c", "o", "M", "A", "X" >>

\* the match without backtracking: the digits keep every digit they took
format_model_name_greedy_digits(model_name) ==
    LET n == Len(model_name)
        L == LetterRun(model_name, 1)
        S == SpaceRun(model_name, L + 1)
        D == DigitRun(model_name, L + S + 1)
        model_device == SubSeq(model_name, 1, L)
        model_number == SubSeq(model_name, L + S + 1, L + S + D)
        model_suffix == SubSeq(model_name, L + S + D + 1, n)
    IN  IF L >= 1 /\ D >= MinModelDigits /\ Len(model_suffix) >= 1
        THEN (IF model_device = EM THEN ecoMAX ELSE model_device)
                 \o << " " >> \o model_number \o model_suffix
        ELSE model_name

\* re.match(r"^([A-Z]+)\s{0,}([0-9]{3,})(.+)$", model_name, re.IGNORECASE):
\* the three character classes are disjoint, so the letters and the blanks
\* match greedily without backtracking; the digits give one back to (.+)
\* when they run to the end of the name.
format_model_name(model_name) ==
    LET n == Len(model_name)
        L == LetterRun(model_name, 1)
        S == SpaceRun(model_name, L + 1)
        D == DigitRun(model_name, L + S + 1)
        rest == n - L - S
        taken == IF D = rest THEN D - 1 ELSE D
        model_device == SubSeq(model_name, 1, L)
        model_number == SubSeq(model_name, L + S + 1, L + S + taken)
        model_suffix == SubSeq(model_name, L + S + taken + 1, n)
    IN  IF L >= 1 /\ taken >= MinModelDigits /\ Len(model_suffix) >= 1
        THEN (IF model_device = EM THEN ecoMAX ELSE model_device)
                 \o << " " >> \o model_number \o model_suffix
        ELSE model_name

----------------------------------------------------------------------------
(* Dictionaries *)

Put(d, k, v) == (k :> v) @@ d
Del(d, k) == [ f \in (DOMAIN d) \ {k} |-> d[f] ]

CONF_MODEL == "model"
CONF_UID == "uid"
CONF_SOFTWARE == "software"
CONF_PRODUCT_TYPE == "product_type"
CONF_PRODUCT_ID == "product_id"
CONF_CAPABILITIES == "capabilities"
CONF_SUB_DEVICES == "sub_devices"

CurrentVersion == 7

----------------------------------------------------------------------------
(* The live device and the persisted records *)

ProductTypes == { 0, 1 }
ProductIds == { 48, 51 }
SubDeviceSets == { {}, { "mixers", "water_heater" } }

\* top-level value names of a device snapshot
ATTR_MIXERS == "mixers"
ATTR_WATER_HEATER_TEMP == "water_heater_temp"
ATTR_WATER_HEATER == "water_heater"
ValueNames == { "heating_temp", ATTR_WATER_HEATER_TEMP, ATTR_MIXERS }
MixerAttrs == { "temp", "target" }

ModelNames ==
    { << "E", "M", "3", "5", "0", "P", "2", "-", "Z", "F" >>,
      << "e", "c", "o", "S", "O", "L", "3", "0", "1" >>,
      << "u", "n", "k", "n", "o", "w", "n" >> }

\* the capability set a record created before this run holds
StoredCapabilities == { "heating_temp", "fuel_level" }

\* The fields a record of version v holds: every record has uid, software, model
\* and the capability set; product_type since 3, the formatted model since 4,
\* sub_devices since 6, product_id since 7.
RecordData(v, m, dev) ==
    LET base == [ f \in { CONF_UID, CONF_SOFTWARE } |-> IF f = CONF_UID THEN "uid" ELSE "1.0" ]
        d1 == Put(base, CONF_MODEL, IF v >= 4 THEN format_model_name(m) ELSE m)
        d2 == Put(d1, CONF_CAPABILITIES, StoredCapabilities)
        d3 == IF v >= 3 THEN Put(d2, CONF_PRODUCT_TYPE, dev.product.type) ELSE d2
        d4 == IF v >= 6 THEN Put(d3, CONF_SUB_DEVICES, dev.sub_devices) ELSE d3
    IN  IF v >= 7 THEN Put(d4, CONF_PRODUCT_ID, dev.product.id) ELSE d4

\* async_get_sub_devices(device): the sub-device descriptor of the live device
async_get_sub_devices(dev) == dev.sub_devices

----------------------------------------------------------------------------
(* async_migrate_entry *)

\* DEFAULT_CONNECTION_TYPE handler, EcomaxConnection(...), connection.connect(),
\* data = {**config_entry.data}
MigrateStart ==
    /\ migrate_pc = "idle"
    /\ setup_pc = "idle"
    /\ RefreshIdle
    /\ migrate_runs < MaxRuns
    /\ migrate_pc' = "get_device"
    /\ migrate_data' = entry.data
    /\ migrate_result' = "none"
    /\ migrate_session' = "open"
    /\ migrate_entry0' = entry
    /\ migrate_applied' = << >>
    /\ migrate_updates' = 0
    /\ migrate_timeouts' = 0
    /\ migrate_runs' = migrate_runs + 1
    /\ UNCHANGED << outside_migrate, entry, device, device_answers, format_vars >>

\* device = await connection.get(ECOMAX, timeout=DEFAULT_TIMEOUT), answered
MigrateGetDevice ==
    /\ device_answers
    /\ migrate_pc = "get_device"
    /\ migrate_pc' = "if_1_2"
    /\ UNCHANGED << outside_migrate, entry, device, device_answers, format_vars, migrate_data, migrate_result, migrate_session,
                    migrate_entry0, migrate_applied, migrate_updates,
                    migrate_timeouts, migrate_runs >>

\* config_entry.version = to, and the history of it
SetVersion(to) ==
    /\ entry' = [ entry EXCEPT !.version = to ]
    /\ migrate_applied' = Append(migrate_applied, << entry.version, to >>)

\* the if statement at `at` does not apply: fall through to `next`
MigrateSkip(at, from, next) ==
    /\ migrate_pc = at
    /\ entry.version \notin from
    /\ migrate_pc' = next
    /\ UNCHANGED << outside_migrate, entry, device, device_answers, format_vars, migrate_data, migrate_result, migrate_session,
                    migrate_entry0, migrate_applied, migrate_updates,
                    migrate_timeouts, migrate_runs >>

\* the chain written with elif: after the first transition the run goes on to
\* the update
Migrate_1_2_to_3_elif ==
    /\ device_answers
    /\ migrate_pc = "if_1_2"
    /\ entry.version \in { 1, 2 }
    /\ migrate_data' = Put(migrate_data, CONF_PRODUCT_TYPE, device.product.type)
    /\ SetVersion(3)
    /\ migrate_pc' = "update"
    /\ UNCHANGED << outside_migrate, device, device_answers, format_vars, migrate_result, migrate_session, migrate_entry0,
                    migrate_updates, migrate_timeouts, migrate_runs >>

\* if config_entry.version in (1, 2): product type from the device, version 3
Migrate_1_2_to_3 ==
    /\ device_answers
    /\ migrate_pc = "if_1_2"
    /\ entry.version \in { 1, 2 }
    /\ migrate_data' = Put(migrate_data, CONF_PRODUCT_TYPE, device.product.type)
    /\ SetVersion(3)
    /\ migrate_pc' = "if_3"
    /\ UNCHANGED << outside_migrate, device, device_answers, format_vars, migrate_result, migrate_session, migrate_entry0,
                    migrate_updates, migrate_timeouts, migrate_runs >>

\* the 3 -> 4 transition writing 5 for the new version
Migrate_3_to_4_writes_5 ==
    /\ migrate_pc = "if_3"
    /\ entry.version = 3
    /\ migrate_data' =
           Put(migrate_data, CONF_MODEL, format_model_name(migrate_data[CONF_MODEL]))
    /\ SetVersion(5)
    /\ migrate_pc' = "if_4_5"
    /\ UNCHANGED << outside_migrate, device, device_answers, format_vars, migrate_result, migrate_session, migrate_entry0,
                    migrate_updates, migrate_timeouts, migrate_runs >>

\* if config_entry.version == 3: the model name is reformatted, version 4
Migrate_3_to_4 ==
    /\ migrate_pc = "if_3"
    /\ entry.version = 3
    /\ migrate_data' =
           Put(migrate_data, CONF_MODEL, format_model_name(migrate_data[CONF_MODEL]))
    /\ SetVersion(4)
    /\ migrate_pc' = "if_4_5"
    /\ UNCHANGED << outside_migrate, device, device_answers, format_vars, migrate_result, migrate_session, migrate_entry0,
                    migrate_updates, migrate_timeouts, migrate_runs >>

\* the 4/5 -> 6 transition without the del of the legacy field
Migrate_4_5_to_6_keeps_capabilities ==
    /\ device_answers
    /\ migrate_pc = "if_4_5"
    /\ entry.version \in { 4, 5 }
    /\ migrate_data' = Put(migrate_data, CONF_SUB_DEVICES, async_get_sub_devices(device))
    /\ SetVersion(6)
    /\ migrate_pc' = "if_6"
    /\ UNCHANGED << outside_migrate, device, device_answers, format_vars, migrate_result, migrate_session, migrate_entry0,
                    migrate_updates, migrate_timeouts, migrate_runs >>

\* if config_entry.version in (4, 5): del data[CONF_CAPABILITIES] (a KeyError is
\* passed over), the sub-devices from the device, version 6
Migrate_4_5_to_6 ==
    /\ device_answers
    /\ migrate_pc = "if_4_5"
    /\ entry.version \in { 4, 5 }
    /\ migrate_data' =
           Put(Del(migrate_data, CONF_CAPABILITIES), CONF_SUB_DEVICES,
               async_get_sub_devices(device))
    /\ SetVersion(6)
    /\ migrate_pc' = "if_6"
    /\ UNCHANGED << outside_migrate, device, device_answers, format_vars, migrate_result, migrate_session, migrate_entry0,
                    migrate_updates, migrate_timeouts, migrate_runs >>

\* if config_entry.version == 6: product id from the device, version 7
Migrate_6_to_7 ==
    /\ device_answers
    /\ migrate_pc = "if_6"
    /\ entry.version = 6
    /\ migrate_data' = Put(migrate_data, CONF_PRODUCT_ID, device.product.id)
    /\ SetVersion(7)
    /\ migrate_pc' = "update"
    /\ UNCHANGED << outside_migrate, device, device_answers, format_vars, migrate_result, migrate_session, migrate_entry0,
                    migrate_updates, migrate_timeouts, migrate_runs >>

\* hass.config_entries.async_update_entry(config_entry, data=data)
async_update_entry(data) == entry' = [ entry EXCEPT !.data = data ]

\* async_update_entry, await connection.close(), return True
MigrateUpdate ==
    /\ migrate_pc = "update"
    /\ async_update_entry(migrate_data)
    /\ migrate_updates' = migrate_updates + 1
    /\ migrate_session' = "closed"
    /\ migrate_result' = "True"
    /\ migrate_pc' = "done"
    /\ UNCHANGED << outside_migrate, device, device_answers, format_vars, migrate_data, migrate_entry0, migrate_applied,
                    migrate_timeouts, migrate_runs >>

\* the positions at which the run waits for the device
AwaitsDevice ==
    \/ migrate_pc = "get_device"
    \/ migrate_pc = "if_1_2" /\ entry.version \in { 1, 2 }
    \/ migrate_pc = "if_4_5" /\ entry.version \in { 4, 5 }
    \/ migrate_pc = "if_6" /\ entry.version = 6

\* except asyncio.TimeoutError: return False
MigrateTimeout ==
    /\ AwaitsDevice
    /\ migrate_timeouts' = migrate_timeouts + 1
    /\ migrate_result' = "False"
    /\ migrate_pc' = "done"
    /\ UNCHANGED << outside_migrate, entry, device, device_answers, format_vars, migrate_data, migrate_session, migrate_entry0,
                    migrate_applied, migrate_updates, migrate_runs >>

\* the host takes the result
MigrateReturn ==
    /\ migrate_pc = "done"
    /\ migrate_pc' = "idle"
    /\ UNCHANGED << outside_migrate, entry, device, device_answers, format_vars, migrate_data, migrate_result, migrate_session,
                    migrate_entry0, migrate_applied, migrate_updates,
                    migrate_timeouts, migrate_runs >>

Migrate ==
    \/ MigrateStart
    \/ MigrateGetDevice
    \/ MigrateSkip("if_1_2", { 1, 2 }, "if_3")
    \/ Migrate_1_2_to_3
    \/ MigrateSkip("if_3", { 3 }, "if_4_5")
    \/ Migrate_3_to_4
    \/ MigrateSkip("if_4_5", { 4, 5 }, "if_6")
    \/ Migrate_4_5_to_6
    \/ MigrateSkip("if_6", { 6 }, "update")
    \/ Migrate_6_to_7
    \/ MigrateUpdate
    \/ MigrateTimeout
    \/ MigrateReturn

----------------------------------------------------------------------------
(* async_get_device_capabilities *)

\* f"mixer_{mixer.index}_{x}"
MixerToken(index, x) == "mixer_" \o ToString(index) \o "_" \o x

\* for mixer in device.data[ATTR_MIXERS]: capabilities.update(...), from the
\* i-th mixer of the collection on, in the collection's order
RECURSIVE UpdateFromMixers(_, _, _)
UpdateFromMixers(capabilities, mixers, i) ==
    IF i > Len(mixers)
    THEN capabilities
    ELSE UpdateFromMixers(
             capabilities \cup { MixerToken(mixers[i].index, x) : x \in mixers[i].data },
             mixers, i + 1)

\* the discovery that forgets the synthetic water heater token
async_get_device_capabilities_no_water_heater(dev) ==
    IF ATTR_MIXERS \in dev.data THEN UpdateFromMixers(dev.data, dev.mixers, 1) ELSE dev.data

\* the body of async_get_device_capabilities once get_value(ATTR_LOADED) answered
async_get_device_capabilities(dev) ==
    LET keys == dev.data
        with_mixers ==
            IF ATTR_MIXERS \in keys THEN UpdateFromMixers(keys, dev.mixers, 1) ELSE keys
    IN  IF ATTR_WATER_HEATER_TEMP \in with_mixers
        THEN with_mixers \cup { ATTR_WATER_HEATER }
        ELSE with_mixers

\* await device.get_value(ATTR_LOADED) answered within DEFAULT_TIMEOUT
DiscoverAnswered ==
    /\ device_answers
    /\ discover_result.status = "none"
    /\ discover_result' =
           [ status |-> "ok", capabilities |-> async_get_device_capabilities(device) ]
    /\ UNCHANGED << entry, device, device_answers, format_vars, migrate_vars, connection_vars, resolve_vars,
                    handler_vars >>

\* @timeout(seconds=DEFAULT_TIMEOUT) fired: asyncio.TimeoutError, no set returned
DiscoverTimeout ==
    /\ discover_result.status = "none"
    /\ discover_result' = [ status |-> "TimeoutError", capabilities |-> {} ]
    /\ UNCHANGED << entry, device, device_answers, format_vars, migrate_vars, connection_vars, resolve_vars,
                    handler_vars >>

----------------------------------------------------------------------------
(* EcomaxConnection *)

\* entry.data[key]: the value, or the KeyError of a key the record lacks
Lookup(data, key) ==
    IF key \in DOMAIN data
    THEN [ ok |-> TRUE, value |-> data[key] ]
    ELSE [ ok |-> FALSE, value |-> "KeyError" ]

model == Lookup(entry.data, CONF_MODEL)
uid == Lookup(entry.data, CONF_UID)
software == Lookup(entry.data, CONF_SOFTWARE)
capabilities == Lookup(entry.data, CONF_CAPABILITIES)

SERVICES == { "get_parameter", "set_parameter", "get_schedule", "set_schedule" }

\* connection.close() on session i; a second call is counted as well
Close(ss, i) ==
    [ ss EXCEPT ![i] = [ state |-> "closed", closes |-> ss[i].closes + 1 ] ]

\* async_setup_entry up to the first await of async_setup: a new
\* EcomaxConnection (_device None) and the stop listener on it registered with
\* the entry's unload callbacks
SetupStart ==
    /\ setup_pc = "idle"
    /\ migrate_pc = "idle"
    /\ hass_state = "running"
    /\ entry.version = CurrentVersion
    /\ Len(sessions) < MaxSetups
    /\ setup_pc' = "connect"
    /\ setup_log' = << >>
    /\ conn_device' = "None"
    /\ sessions' = Append(sessions, [ state |-> "new", closes |-> 0 ])
    /\ stop_listener' = Len(sessions) + 1
    /\ UNCHANGED << entry, device, device_answers, format_vars, migrate_vars, hass_data, hass_state, hass_services,
                    alert_subscribed, platforms, refresh_pc, refresh_data,
                    refresh_result, refresh_entry0, discover_vars, resolve_vars,
                    handler_vars >>

\* await self.connection.connect() returned: the session is open
SetupConnect ==
    /\ setup_pc = "connect"
    /\ hass_state = "running"
    /\ setup_pc' = "get_device"
    /\ setup_log' = Append(setup_log, "connect")
    /\ sessions' = [ sessions EXCEPT ![Len(sessions)].state = "open" ]
    /\ UNCHANGED << entry, device, device_answers, format_vars, migrate_vars, conn_device, hass_data, stop_listener,
                    hass_state, hass_services, alert_subscribed, platforms, refresh_pc,
                    refresh_data, refresh_result, refresh_entry0, discover_vars,
                    resolve_vars, handler_vars >>

\* the steps with the alert subscription made before the services
SetupSteps_events_first == << "get_device", "events", "services", "hass_data", "platforms" >>

\* lines 97-100 in the order of the code: the services are registered, the
\* alert subscription is made, the connection is stored in hass.data and the
\* platforms are forwarded
SetupSteps == << "get_device", "services", "events", "hass_data", "platforms" >>

\* self._device = await self.connection.get_device(ECOMAX, timeout=DEVICE_TIMEOUT),
\* then lines 97-101, which hold no await: services, alert subscription,
\* hass.data, platforms
SetupGetDevice ==
    /\ device_answers
    /\ setup_pc = "get_device"
    /\ hass_state = "running"
    /\ setup_pc' = "ready"
    /\ setup_log' = setup_log \o SetupSteps
    /\ conn_device' = "device"
    /\ hass_services' = hass_services \cup SERVICES
    /\ alert_subscribed' = Len(sessions)
    /\ hass_data' = Len(sessions)
    /\ platforms' = TRUE
    /\ UNCHANGED << entry, device, device_answers, format_vars, migrate_vars, sessions, stop_listener, hass_state,
                    refresh_pc, refresh_data, refresh_result, refresh_entry0,
                    discover_vars, resolve_vars, handler_vars >>

\* a setup run that stops at the raise, having registered nothing
SetupRaise ==
    /\ setup_pc' = "idle"
    /\ stop_listener' = 0
    /\ UNCHANGED << entry, device, device_answers, format_vars, migrate_vars, conn_device, sessions, hass_data,
                    hass_state, hass_services, alert_subscribed, platforms, setup_log,
                    refresh_pc, refresh_data, refresh_result, refresh_entry0,
                    discover_vars, resolve_vars, handler_vars >>

\* connect() raised asyncio.TimeoutError: raise ConfigEntryNotReady; the
\* session was never opened, and the host runs the entry's unload callbacks,
\* which remove the stop listener
SetupConnectTimeout ==
    /\ setup_pc = "connect"
    /\ SetupRaise

\* get_device raised asyncio.TimeoutError: raise ConfigEntryNotReady; the
\* connection is not closed, and the host runs the entry's unload callbacks,
\* which remove the stop listener
SetupTimeout ==
    /\ setup_pc = "get_device"
    /\ SetupRaise

\* async_unload_entry: when the platforms unload, the connection of hass.data
\* is closed and popped (a missing key is passed over), and the host runs the
\* entry's unload callbacks, which remove the stop listener; when they do not
\* unload, nothing is closed and the entry stays as it is
Unload ==
    /\ setup_pc = "ready"
    /\ RefreshIdle
    /\ hass_state = "running"
    /\ \E unload_ok \in BOOLEAN :
           IF unload_ok
           THEN /\ setup_pc' = "idle"
                /\ conn_device' = "None"
                /\ platforms' = FALSE
                /\ sessions' = IF hass_data = 0 THEN sessions ELSE Close(sessions, hass_data)
                /\ hass_data' = 0
                /\ stop_listener' = 0
           ELSE /\ setup_pc' = "failed_unload"
                /\ UNCHANGED << conn_device, platforms, sessions, hass_data, stop_listener >>
    /\ UNCHANGED << entry, device, device_answers, format_vars, migrate_vars, hass_state, hass_services,
                    alert_subscribed, setup_log, refresh_pc, refresh_data, refresh_result,
                    refresh_entry0, discover_vars, resolve_vars, handler_vars >>

\* EVENT_HOMEASSISTANT_STOP: the listener of lines 82-88, if still registered,
\* closes its connection
HostStop ==
    /\ hass_state = "running"
    /\ hass_state' = "stopped"
    /\ stop_listener' = 0
    /\ sessions' = IF stop_listener = 0 THEN sessions ELSE Close(sessions, stop_listener)
    /\ UNCHANGED << entry, device, device_answers, format_vars, migrate_vars, setup_pc, conn_device, hass_data,
                    hass_services, alert_subscribed, platforms, setup_log, refresh_pc,
                    refresh_data,
                    refresh_result, refresh_entry0, discover_vars, resolve_vars,
                    handler_vars >>

\* async_update_device_capabilities of caller c up to its await:
\* data = {**self.entry.data}, then self.device, which raises
\* ConfigEntryNotReady while _device is None
RefreshStart(c) ==
    /\ refresh_pc[c] = "idle"
    /\ migrate_pc = "idle"
    /\ refresh_data' = [ refresh_data EXCEPT ![c] = entry.data ]
    /\ refresh_entry0' = [ refresh_entry0 EXCEPT ![c] = entry ]
    /\ IF conn_device = "None"
       THEN /\ UNCHANGED refresh_pc
            /\ refresh_result' = [ refresh_result EXCEPT ![c] = "ConfigEntryNotReady" ]
       ELSE /\ refresh_pc' = [ refresh_pc EXCEPT ![c] = "discovering" ]
            /\ refresh_result' = [ refresh_result EXCEPT ![c] = "none" ]
    /\ UNCHANGED << entry, device, device_answers, format_vars, migrate_vars, setup_pc,
                    conn_device, lifecycle_vars, discover_vars, resolve_vars,
                    handler_vars >>

\* the refresh that stores the set collected so far when the discovery times out
RefreshTimeout_stores_partial(c) ==
    /\ refresh_pc[c] = "discovering"
    /\ refresh_pc' = [ refresh_pc EXCEPT ![c] = "idle" ]
    /\ refresh_result' = [ refresh_result EXCEPT ![c] = "TimeoutError" ]
    /\ entry' = [ entry EXCEPT !.data = Put(refresh_data[c], CONF_CAPABILITIES, device.data) ]
    /\ UNCHANGED << device, device_answers, format_vars, migrate_vars, setup_pc,
                    conn_device, lifecycle_vars, refresh_data, refresh_entry0,
                    discover_vars, resolve_vars, handler_vars >>

\* the discovery of caller c answered: data[CONF_CAPABILITIES] = ...,
\* async_update_entry
RefreshUpdate(c) ==
    /\ device_answers
    /\ refresh_pc[c] = "discovering"
    /\ refresh_pc' = [ refresh_pc EXCEPT ![c] = "idle" ]
    /\ refresh_result' = [ refresh_result EXCEPT ![c] = "ok" ]
    /\ refresh_data' =
           [ refresh_data EXCEPT
               ![c] = Put(@, CONF_CAPABILITIES, async_get_device_capabilities(device)) ]
    /\ async_update_entry(refresh_data'[c])
    /\ UNCHANGED << device, device_answers, format_vars, migrate_vars, setup_pc,
                    conn_device, lifecycle_vars, refresh_entry0, discover_vars,
                    resolve_vars, handler_vars >>

\* the discovery of caller c timed out: asyncio.TimeoutError leaves the method
\* before the assignment and before async_update_entry
RefreshTimeout(c) ==
    /\ refresh_pc[c] = "discovering"
    /\ refresh_pc' = [ refresh_pc EXCEPT ![c] = "idle" ]
    /\ refresh_result' = [ refresh_result EXCEPT ![c] = "TimeoutError" ]
    /\ UNCHANGED << entry, device, device_answers, format_vars, migrate_vars, setup_pc,
                    conn_device, lifecycle_vars, refresh_data, refresh_entry0,
                    discover_vars, resolve_vars, handler_vars >>

\* the one caller of the refresh beside which migration and setup are checked
Caller == CHOOSE c \in RefreshCallers : TRUE

Connection ==
    \/ SetupStart
    \/ SetupConnect
    \/ SetupConnectTimeout
    \/ SetupGetDevice
    \/ SetupTimeout
    \/ Unload
    \/ RefreshStart(Caller)
    \/ RefreshUpdate(Caller)
    \/ RefreshTimeout(Caller)

----------------------------------------------------------------------------
(* async_extract_target_device *)

\* `sub in s`
Contains(s, sub) ==
    \E i \in 1 .. Len(s) - Len(sub) + 1 : SubSeq(s, i, i + Len(sub) - 1) = sub

\* position of the first sep in s from i on, 0 when there is none
RECURSIVE Find(_, _, _)
Find(s, sep, i) ==
    IF i > Len(s) THEN 0 ELSE IF s[i] = sep THEN i ELSE Find(s, sep, i + 1)

\* s.split(sep, maxsplit) for a one-character sep
RECURSIVE Split(_, _, _)
Split(s, sep, maxsplit) ==
    LET at == Find(s, sep, 1)
    IN  IF maxsplit = 0 \/ at = 0
        THEN << s >>
        ELSE << SubSeq(s, 1, at - 1) >> \o Split(SubSeq(s, at + 1, Len(s)), sep, maxsplit - 1)

\* the character of a digit
ToChar(n) ==
    CASE n = 0 -> "0" [] n = 1 -> "1" [] n = 2 -> "2" [] n = 3 -> "3" [] n = 4 -> "4"
      [] n = 5 -> "5" [] n = 6 -> "6" [] n = 7 -> "7" [] n = 8 -> "8" [] n = 9 -> "9"

DigitValue(c) ==
    CASE c = "0" -> 0 [] c = "1" -> 1 [] c = "2" -> 2 [] c = "3" -> 3 [] c = "4" -> 4
      [] c = "5" -> 5 [] c = "6" -> 6 [] c = "7" -> 7 [] c = "8" -> 8 [] c = "9" -> 9

\* int(s) accepts s: a non-empty run of digits (the identifiers of the model
\* hold no sign, blank or underscore)
IsInt(s) == Len(s) >= 1 /\ \A i \in 1 .. Len(s) : IsDigit(s[i])

\* int(s)
RECURSIVE ParseInt(_)
ParseInt(s) ==
    IF Len(s) = 0 THEN 0 ELSE 10 * ParseInt(SubSeq(s, 1, Len(s) - 1)) + DigitValue(s[Len(s)])

MIXER_MARKER == << "-", "m", "i", "x", "e", "r", "-" >>
MaxSplit == 3

\* the identifier the registry holds for each device id
IdentifierOf ==
    [ d \in { "main", "mixer_0", "mixer_1", "mixer_2", "mixer_10", "mixer_x",
              "dashed_1", "dashed_2" } |->
        CASE d = "main" -> << "u", "i", "d" >>
          [] d = "mixer_0" -> << "u", "i", "d" >> \o MIXER_MARKER \o << "0" >>
          [] d = "mixer_1" -> << "u", "i", "d" >> \o MIXER_MARKER \o << "1" >>
          [] d = "mixer_2" -> << "u", "i", "d" >> \o MIXER_MARKER \o << "2" >>
          [] d = "mixer_10" -> << "u", "i", "d" >> \o MIXER_MARKER \o << "1", "0" >>
          [] d = "mixer_x" -> << "u", "i", "d" >> \o MIXER_MARKER \o << "x" >>
          [] d = "dashed_1" -> << "u", "-", "d" >> \o MIXER_MARKER \o << "1" >>
          [] d = "dashed_2" -> << "u", "-", "i", "-", "d" >> \o MIXER_MARKER \o << "1" >> ]

DeviceIds == DOMAIN IdentifierOf

\* connection.device.data.get(ATTR_MIXERS, {}): the mixers by index
Mixers(dev) ==
    IF ATTR_MIXERS \in dev.data
    THEN { dev.mixers[i].index : i \in 1 .. Len(dev.mixers) }
    ELSE {}

Returned(kind, index) == [ kind |-> kind, index |-> index, error |-> "none" ]
Raised(error) == [ kind |-> "raise", index |-> -1, error |-> error ]

async_extract_target_device(device_id, dev) ==
    IF device_id \notin registry
    THEN Raised("HomeAssistantError")
    ELSE LET identifier == IdentifierOf[device_id]
             last == Split(identifier, "-", MaxSplit)
             text == last[Len(last)]
         IN  IF Contains(identifier, MIXER_MARKER)
             THEN IF ~IsInt(text)
                  THEN Raised("ValueError")
                  ELSE IF ParseInt(text) \in Mixers(dev)
                       THEN Returned("mixer", ParseInt(text))
                       ELSE Returned("ecomax", -1)
             ELSE Returned("ecomax", -1)

\* one call of async_extract_target_device by a service, the connection set up
ExtractTargetDevice ==
    /\ conn_device = "device"
    /\ \E device_id \in DeviceIds :
           /\ target_id' = device_id
           /\ target_result' = async_extract_target_device(device_id, device)
    /\ UNCHANGED << entry, device, device_answers, format_vars, migrate_vars, connection_vars, discover_vars, registry,
                    handler_vars >>

----------------------------------------------------------------------------
(* services.py: the get_parameter and set_parameter services *)

\* the parameter a call names and the value a set call carries
ParameterNames == { "heating_target_temp" }
ParameterValues == { 65 }

\* what device.get(name) does: a parameter with a value, or an exception
GetOutcomes == { "20", "65", "ParameterNotFoundError", "TimeoutError" }
\* what device.set(name, value) does: True, False, or an exception
SetOutcomes == { "True", "False", "ParameterNotFoundError", "TimeoutError", "ValueError" }

None == [ none |-> TRUE ]

\* async_extract_referenced_devices: the set of the targets of the device ids of
\* the selected entities, or the error the first failing resolution raised
async_extract_referenced_devices(selected, dev) ==
    { async_extract_target_device(device_id, dev) : device_id \in selected }

\* async_get_device_parameter: None on ParameterNotFoundError and TimeoutError,
\* else the dict of the parameter
async_get_device_parameter(d, name, outcome) ==
    IF outcome \in { "ParameterNotFoundError", "TimeoutError" }
    THEN None
    ELSE [ none |-> FALSE,
           name |-> name,
           value |-> outcome,
           device_type |-> d.kind,
           device_index |-> IF d.kind = "mixer" THEN d.index + 1 ELSE 0 ]

\* async_set_device_parameter: what device.set returned, False on
\* ParameterNotFoundError and TimeoutError, HomeAssistantError on ValueError
async_set_device_parameter(outcome) ==
    CASE outcome = "True" -> [ raised |-> FALSE, value |-> TRUE ]
      [] outcome = "ValueError" -> [ raised |-> TRUE, value |-> FALSE ]
      [] OTHER -> [ raised |-> FALSE, value |-> FALSE ]

NoResult == [ status |-> "none", error |-> "none", message |-> "", parameters |-> << >> ]
ServiceRaised(error, message) ==
    [ status |-> "raised", error |-> error, message |-> message, parameters |-> << >> ]
ServiceReturned(parameters) ==
    [ status |-> "returned", error |-> "none", message |-> "", parameters |-> parameters ]

\* [parameter for parameter in [...] if parameter is not None]
RECURSIVE NotNone(_)
NotNone(values) ==
    IF values = << >> THEN << >>
    ELSE IF Head(values) = None THEN NotNone(Tail(values))
         ELSE << Head(values) >> \o NotNone(Tail(values))

\* any() over dicts: a dict is truthy when it has a key
AnyDict(values) == \E i \in 1 .. Len(values) : DOMAIN values[i] # {}
\* any() over bools
AnyTrue(values) == \E i \in 1 .. Len(values) : values[i]

\* a get_parameter that raises as soon as one device has not the parameter
GetParameterReturn_all_or_error(name, values) ==
    IF Len(NotNone(values)) < Len(values) \/ values = << >>
    THEN ServiceRaised("HomeAssistantError",
                       "Couldn't get " \o name \o " parameter, check logs for more info")
    ELSE ServiceReturned(values)

\* the end of async_get_parameter_service, from the list of helper results
GetParameterReturn(name, values) ==
    LET parameters == NotNone(values)
    IN  IF ~AnyDict(parameters)
        THEN ServiceRaised("HomeAssistantError",
                           "Couldn't get " \o name \o " parameter, check logs for more info")
        ELSE ServiceReturned(parameters)

\* the end of async_set_parameter_service, from the helper results
SetParameterReturn(name, values) ==
    IF ~AnyTrue(values)
    THEN ServiceRaised("HomeAssistantError",
                       "Couldn't set parameter '" \o name
                           \o "', please check logs for more info")
    ELSE ServiceReturned(<< >>)

ServiceReturn(kind, name, values) ==
    IF kind = "get" THEN GetParameterReturn(name, values)
    ELSE SetParameterReturn(name, values)

\* the comprehension takes the next device of the set and awaits its call
\* before it takes another one
AwaitNext(state, next_state) ==
    \E d \in DOMAIN state :
        /\ state[d] = "waiting"
        /\ next_state = [ state EXCEPT ![d] = "pending" ]


\* the sets of device ids the entities of a call refer to
SelectedSets == { s \in SUBSET DeviceIds : Cardinality(s) <= MaxSelected }

NoCall == [ kind |-> "none", name |-> "", value |-> 0, resolved |-> FALSE ]

\* a service call up to its first await: the devices are resolved, which may
\* raise; with no device the call ends at once, else the first device is called
ServiceStart(kind) ==
    /\ conn_device = "device"
    /\ \E name \in ParameterNames, value \in ParameterValues, selected \in SelectedSets :
           LET devices == async_extract_referenced_devices(selected, device)
               waiting == [ d \in devices |-> "waiting" ]
           IN  /\ call_data' = [ kind |-> kind, name |-> name, value |-> value,
                                 resolved |-> \A d \in devices : d.kind # "raise" ]
               /\ call_values' = << >>
               /\ IF \E d \in devices : d.kind = "raise"
                  THEN /\ \E d \in devices :
                              /\ d.kind = "raise"
                              /\ call_result' = ServiceRaised(d.error, "")
                       /\ call_pc' = "done"
                       /\ call_devices' = {}
                       /\ call_state' = << >>
                       /\ call_outcome' = << >>
                  ELSE /\ call_devices' = devices
                       /\ call_outcome' = [ d \in devices |-> "none" ]
                       /\ IF devices = {}
                          THEN /\ call_pc' = "done"
                               /\ call_state' = waiting
                               /\ call_result' = ServiceReturn(kind, name, << >>)
                          ELSE /\ call_pc' = "running"
                               /\ AwaitNext(waiting, call_state')
                               /\ call_result' = NoResult
    /\ UNCHANGED outside_service

\* the rest of a service call once helper results `values` are in and the
\* devices stand at `state`: the next device is called, or the call ends
ServiceContinue(values, state) ==
    /\ call_values' = values
    /\ IF \E d \in DOMAIN state : state[d] = "waiting"
       THEN /\ AwaitNext(state, call_state')
            /\ UNCHANGED << call_pc, call_result >>
       ELSE /\ call_state' = state
            /\ call_pc' = "done"
            /\ call_result' = ServiceReturn(call_data.kind, call_data.name, values)

\* async_get_parameter_service, lines 178-191, from the answer of the device
\* it awaits
GetParameterAnswer ==
    /\ device_answers
    /\ call_pc = "running"
    /\ call_data.kind = "get"
    /\ \E d \in call_devices, outcome \in GetOutcomes :
           /\ call_state[d] = "pending"
           /\ call_outcome' = [ call_outcome EXCEPT ![d] = outcome ]
           /\ ServiceContinue(
                  Append(call_values, async_get_device_parameter(d, call_data.name, outcome)),
                  [ call_state EXCEPT ![d] = "answered" ])
    /\ UNCHANGED << outside_service, call_data, call_devices >>

\* async_set_parameter_service, lines 227-235, from the answer of the device
\* it awaits; the HomeAssistantError of the helper leaves the comprehension
SetParameterAnswer ==
    /\ device_answers
    /\ call_pc = "running"
    /\ call_data.kind = "set"
    /\ \E d \in call_devices, outcome \in SetOutcomes :
           LET result == async_set_device_parameter(outcome)
               answered == [ call_state EXCEPT ![d] = "answered" ]
           IN  /\ call_state[d] = "pending"
               /\ call_outcome' = [ call_outcome EXCEPT ![d] = outcome ]
               /\ IF result.raised
                  THEN /\ call_state' = answered
                       /\ call_pc' = "done"
                       /\ call_result' =
                              ServiceRaised("HomeAssistantError", "Couldn't set parameter: ")
                       /\ UNCHANGED call_values
                  ELSE ServiceContinue(Append(call_values, result.value), answered)
    /\ UNCHANGED << outside_service, call_data, call_devices >>

\* async_get_parameter_service, lines 174-181
GetParameterStart ==
    /\ call_pc = "idle"
    /\ ServiceStart("get")

\* async_set_parameter_service, lines 222-230
SetParameterStart ==
    /\ call_pc = "idle"
    /\ ServiceStart("set")

----------------------------------------------------------------------------
(* services.py: the schedule codec and the get_schedule and set_schedule   *)
(* services. ScheduleDay, its set_state, Schedule.commit and the constants *)
(* of pyplumio.helpers.schedule are the device library's.                  *)

SCHEDULES == { "heating", "water_heater" }
STATE_DAY == "day"
STATE_NIGHT == "night"
PRESETS == { STATE_DAY, STATE_NIGHT }
WEEKDAYS ==
    { "monday", "tuesday", "wednesday", "thursday", "friday", "saturday", "sunday" }

\* minutes of one interval of a schedule day: timedelta(minutes=30 * index)
SlotMinutes == 30
MinutesPerDay == 24 * 60
\* intervals of a ScheduleDay
SlotsPerDay == MinutesPerDay \div SlotMinutes

\* a time format is the list of its directives, joined by ":"
HMS == << "H", "M", "S" >>
\* the library's format of a wall-clock time, the one set_state is given
TIME_FORMAT == << "H", "M" >>
START_OF_DAY == << "0", "0", ":", "0", "0" >>

\* the largest value of a directive
FieldMax(directive) == IF directive = "H" THEN 23 ELSE 59

\* one field of strptime: one or two digits within the directive's range
IsField(text, directive) ==
    /\ IsInt(text)
    /\ Len(text) <= 2
    /\ ParseInt(text) <= FieldMax(directive)

\* the seconds of the day a list of fields stands for
RECURSIVE FieldSeconds(_, _)
FieldSeconds(pieces, format) ==
    IF pieces = << >> THEN 0
    ELSE ParseInt(Head(pieces))
             * (CASE Head(format) = "H" -> 3600 [] Head(format) = "M" -> 60 [] OTHER -> 1)
         + FieldSeconds(Tail(pieces), Tail(format))

\* datetime.strptime(text, format): the seconds after midnight, or ValueError
strptime(text, format) ==
    LET pieces == Split(text, ":", Len(text))
    IN  IF /\ Len(pieces) = Len(format)
           /\ \A i \in 1 .. Len(pieces) : IsField(pieces[i], format[i])
        THEN [ ok |-> TRUE, seconds |-> FieldSeconds(pieces, format) ]
        ELSE [ ok |-> FALSE, seconds |-> 0 ]

\* %H, %M, %S print two digits
Pad2(n) == IF n < 10 THEN "0" \o ToString(n) ELSE ToString(n)

FieldOf(seconds, directive) ==
    CASE directive = "H" -> (seconds \div 3600) % 24
      [] directive = "M" -> (seconds \div 60) % 60
      [] OTHER -> seconds % 60

\* datetime.strftime(format) of the moment `seconds` after midnight
RECURSIVE strftime(_, _)
strftime(seconds, format) ==
    IF Len(format) = 1 THEN Pad2(FieldOf(seconds, Head(format)))
    ELSE Pad2(FieldOf(seconds, Head(format))) \o ":" \o strftime(seconds, Tail(format))

START_OF_DAY_DT == strptime(START_OF_DAY, TIME_FORMAT).seconds

\* a codec whose keys step by the hour
IntervalKey_hourly(index) == strftime(START_OF_DAY_DT + 60 * (60 * index), TIME_FORMAT)

\* the key async_schedule_day_to_dict gives interval `index` (from 0)
IntervalKey(index) == strftime(START_OF_DAY_DT + 60 * (SlotMinutes * index), TIME_FORMAT)

\* the keys of the intervals of a day, by position
IntervalKeys == [ i \in 1 .. SlotsPerDay |-> IntervalKey(i - 1) ]

\* the dict comprehension over enumerate(schedule_day.intervals): the last
\* index of a key wins
async_schedule_day_to_dict(schedule_day) ==
    [ k \in { IntervalKeys[i] : i \in 1 .. Len(schedule_day) } |->
        LET last == CHOOSE i \in 1 .. Len(schedule_day) :
                        /\ IntervalKeys[i] = k
                        /\ \A j \in i + 1 .. Len(schedule_day) : IntervalKeys[j] # k
        IN  IF schedule_day[last] THEN STATE_DAY ELSE STATE_NIGHT ]

\* ScheduleDay.set_state(state, start, end): the intervals whose start lies in
\* [start, end) take the state; ValueError when a time does not parse
set_state(intervals, state, start, end) ==
    LET from == strptime(start, TIME_FORMAT)
        to == strptime(end, TIME_FORMAT)
    IN  IF ~from.ok \/ ~to.ok
        THEN [ raised |-> TRUE, intervals |-> intervals ]
        ELSE [ raised |-> FALSE,
               intervals |->
                   [ i \in 1 .. Len(intervals) |->
                       IF /\ from.seconds <= 60 * (SlotMinutes * (i - 1))
                          /\ 60 * (SlotMinutes * (i - 1)) < to.seconds
                       THEN state = STATE_DAY
                       ELSE intervals[i] ] ]

\* text[:-3]
DropLast3(text) == SubSeq(text, 1, Len(text) - 3)

\* the calls a service makes on the schedule object
EditOf(weekday) == [ op |-> "set_state", weekday |-> weekday ]
Commit == [ op |-> "commit", weekday |-> "" ]

\* the loop of lines 310-317 over `weekdays`, from the days `schedule` and the
\* calls `log` made so far: it ends at the first ValueError
RECURSIVE EditWeekdays(_, _, _, _)
EditWeekdays(schedule, log, weekdays, call) ==
    IF weekdays = << >>
    THEN [ raised |-> FALSE, schedule |-> schedule, log |-> log ]
    ELSE LET weekday == Head(weekdays)
             edit == set_state(schedule[weekday], call.preset,
                               DropLast3(call.start), DropLast3(call.end))
         IN  IF edit.raised
             THEN [ raised |-> TRUE, schedule |-> schedule,
                    log |-> Append(log, EditOf(weekday)) ]
             ELSE EditWeekdays([ schedule EXCEPT ![weekday] = edit.intervals ],
                               Append(log, EditOf(weekday)), Tail(weekdays), call)

ParseError(schedule_type) ==
    ServiceRaised("HomeAssistantError",
                  "Error while trying to parse time interval for " \o schedule_type
                      \o " schedule")

NotSupported(schedule_type) ==
    ServiceRaised("HomeAssistantError",
                  schedule_type
                      \o " schedule is not supported by the device, check logs for more info")

\* a service that commits before it edits
SetScheduleRun_commit_first(schedule, call) ==
    LET edits == EditWeekdays(schedule, << Commit >>, call.weekdays, call)
    IN  [ schedule |-> edits.schedule, log |-> edits.log, committed |-> TRUE,
          result |-> IF edits.raised THEN ParseError(call.type) ELSE ServiceReturned(<< >>) ]

\* a service that commits in a finally clause
SetScheduleRun_commits_always(schedule, call) ==
    LET edits == EditWeekdays(schedule, << >>, call.weekdays, call)
    IN  [ schedule |-> edits.schedule, log |-> Append(edits.log, Commit),
          committed |-> TRUE,
          result |-> IF edits.raised THEN ParseError(call.type) ELSE ServiceReturned(<< >>) ]

\* a service that hands set_state the end as the start and the start as the end
SetScheduleRun_swapped(schedule, call) ==
    LET edits == EditWeekdays(schedule, << >>, call.weekdays,
                              [ call EXCEPT !.start = call.end, !.end = call.start ])
    IN  IF edits.raised
        THEN [ schedule |-> edits.schedule, log |-> edits.log, committed |-> FALSE,
               result |-> ParseError(call.type) ]
        ELSE [ schedule |-> edits.schedule, log |-> Append(edits.log, Commit),
               committed |-> TRUE, result |-> ServiceReturned(<< >>) ]

\* a service that edits the first requested weekday only
SetScheduleRun_first_weekday_only(schedule, call) ==
    LET edits == EditWeekdays(schedule, << >>,
                              IF call.weekdays = << >> THEN << >>
                              ELSE << Head(call.weekdays) >>, call)
    IN  IF edits.raised
        THEN [ schedule |-> edits.schedule, log |-> edits.log, committed |-> FALSE,
               result |-> ParseError(call.type) ]
        ELSE [ schedule |-> edits.schedule, log |-> Append(edits.log, Commit),
               committed |-> TRUE, result |-> ServiceReturned(<< >>) ]

\* lines 309-319 on the schedule object: the days after the edits, the calls
\* made on it, whether commit was reached, and the outcome
SetScheduleRun(schedule, call) ==
    LET edits == EditWeekdays(schedule, << >>, call.weekdays, call)
    IN  IF edits.raised
        THEN [ schedule |-> edits.schedule, log |-> edits.log, committed |-> FALSE,
               result |-> ParseError(call.type) ]
        ELSE [ schedule |-> edits.schedule, log |-> Append(edits.log, Commit),
               committed |-> TRUE, result |-> ServiceReturned(<< >>) ]

\* wall-clock times the schema of lines 84-92 accepts: vol.Datetime("%H:%M:%S")
\* passes what strptime parses, so a field may have one digit
Clock(h, m, s) ==
    << ToChar(h \div 10), ToChar(h % 10), ":", ToChar(m \div 10), ToChar(m % 10), ":",
       ToChar(s \div 10), ToChar(s % 10) >>
TimeInputs ==
    { Clock(0, 0, 0), Clock(8, 0, 0), Clock(8, 10, 0), Clock(10, 0, 0), Clock(23, 30, 0),
      << "8", ":", "5", ":", "7" >> }

\* service_call.data[ATTR_WEEKDAYS]: a list, which may be empty or repeat a day
WeekdayLists ==
    { << >>, << "tuesday", "monday" >>, << "sunday", "friday", "sunday" >> }

NoScheduleCall ==
    [ service |-> "none", type |-> "", weekdays |-> << >>, preset |-> "",
      start |-> << >>, end |-> << >> ]

\* async_set_schedule_service, lines 295-319; the handler has no await
SetSchedule ==
    /\ sched_pc = "idle"
    /\ conn_device = "device"
    /\ \E schedule_type \in SCHEDULES, weekdays \in WeekdayLists, preset \in PRESETS,
          start_time \in TimeInputs, end_time \in TimeInputs :
           LET call == [ service |-> "set_schedule", type |-> schedule_type,
                         weekdays |-> weekdays, preset |-> preset,
                         start |-> start_time, end |-> end_time ]
           IN  /\ strptime(start_time, HMS).ok
               /\ strptime(end_time, HMS).ok
               /\ sched_call' = call
               /\ IF schedule_type \notin DOMAIN schedules
                  THEN /\ sched_result' = NotSupported(schedule_type)
                       /\ sched_log' = << >>
                       /\ UNCHANGED << schedules, device_schedules >>
                  ELSE LET run == SetScheduleRun(schedules[schedule_type], call)
                       IN  /\ sched_result' = run.result
                           /\ sched_log' = run.log
                           /\ schedules' = [ schedules EXCEPT ![schedule_type] = run.schedule ]
                           /\ device_schedules' =
                                  IF run.committed
                                  THEN [ device_schedules EXCEPT
                                           ![schedule_type] = run.schedule ]
                                  ELSE device_schedules
    /\ sched_pc' = "set_done"
    /\ sched_schedules0' = schedules
    /\ UNCHANGED outside_schedule

\* async_get_schedule_service, lines 261-278
GetSchedule ==
    /\ sched_pc \in { "idle", "set_done" }
    /\ conn_device = "device"
    /\ \E schedule_type \in SCHEDULES, weekdays \in WeekdayLists :
           /\ sched_call' = [ NoScheduleCall EXCEPT !.service = "get_schedule",
                                                    !.type = schedule_type,
                                                    !.weekdays = weekdays ]
           /\ sched_result' =
                  IF schedule_type \notin DOMAIN schedules
                  THEN NotSupported(schedule_type)
                  ELSE ServiceReturned(
                           [ weekday \in { weekdays[i] : i \in 1 .. Len(weekdays) } |->
                               async_schedule_day_to_dict(schedules[schedule_type][weekday]) ])
    /\ sched_pc' = "done"
    /\ sched_log' = << >>
    /\ sched_schedules0' = schedules
    /\ UNCHANGED << outside_schedule, schedules, device_schedules >>

----------------------------------------------------------------------------
(* __init__.py: async_setup_events and the dispatch of alert changes *)

\* a datetime of the model: a day of January 2024 and the seconds of the day
DateTimes == { [ day |-> 1, seconds |-> 30600 ], [ day |-> 2, seconds |-> 0 ] }

\* dt.strftime(DATE_STR_FORMAT), "%Y-%m-%d %H:%M:%S"
DATE_STR_FORMAT(datetime) ==
    "2024-01-" \o Pad2(datetime.day) \o " " \o strftime(datetime.seconds, HMS)

\* an alert of the device: its code, its start, and its end or None
Alerts == [ code : { 0, 26 }, from_dt : DateTimes, to_dt : { None, [ day |-> 2, seconds |-> 30600 ] } ]

\* the lists an alert change may carry; the filter of line 130 passes no empty one
AlertLists == UNION { [ 1 .. n -> Alerts ] : n \in 1 .. MaxAlerts }

\* EcomaxConnection.name: the host of a TCP connection, else the serial device
name == IF conn_kind = "tcp" THEN "192.168.1.2" ELSE "/dev/ttyUSB0"

\* dr.async_get_device({(DOMAIN, connection.uid)}): the id of the registry
\* device with that identifier, or None
async_get_device(identifier) ==
    IF identifier.ok /\ identifier.value = "uid" /\ "main" \in registry
    THEN [ none |-> FALSE, id |-> "main" ]
    ELSE None

\* an event that never carries the end of the alert
event_data_without_to(device_id, alert) ==
    [ name |-> name, device_id |-> device_id, code |-> alert.code,
      from |-> DATE_STR_FORMAT(alert.from_dt) ]

\* lines 118-125: the data of the event of one alert
event_data(device_id, alert) ==
    LET data == [ name |-> name, device_id |-> device_id, code |-> alert.code,
                  from |-> DATE_STR_FORMAT(alert.from_dt) ]
    IN  IF alert.to_dt # None
        THEN Put(data, "to", DATE_STR_FORMAT(alert.to_dt))
        ELSE data

\* a dispatch that fires the events of a change without the registry device
DispatchAlerts_sends_unregistered ==
    /\ alert_subscribed # 0
    /\ conn_device = "device"
    /\ \E alerts \in AlertLists :
           /\ alert_batch' = alerts
           /\ LET registered == async_get_device(uid)
              IN  /\ alert_device' = registered
                  /\ alert_dropped' = (alert_dropped \/ registered = None)
                  /\ alert_fired' =
                         [ i \in 1 .. Len(alerts) |->
                             event_data(IF registered = None THEN "None" ELSE registered.id,
                                        alerts[i]) ]
    /\ UNCHANGED << outside_alerts, conn_kind >>

\* async_dispatch_alert_events, the callback of the subscription of lines
\* 129-131, on a change of the alerts; it has no await
DispatchAlerts ==
    /\ alert_subscribed # 0
    /\ conn_device = "device"
    /\ \E alerts \in AlertLists :
           /\ alert_batch' = alerts
           /\ LET registered == async_get_device(uid)
              IN  /\ alert_device' = registered
                  /\ alert_dropped' = (alert_dropped \/ registered = None)
                  /\ alert_fired' =
                         IF registered = None
                         THEN << >>
                         ELSE [ i \in 1 .. Len(alerts) |->
                                  event_data(registered.id, alerts[i]) ]
    /\ UNCHANGED << outside_alerts, conn_kind >>

\* the host registers the device of the entry, as the platforms that line 100
\* forwards to do when they add their entities
RegisterDevice ==
    /\ "main" \notin registry
    /\ registry' = registry \cup { "main" }
    /\ UNCHANGED << entry, device, device_answers, format_vars, migrate_vars, connection_vars, discover_vars,
                    target_id, target_result, handler_vars >>

----------------------------------------------------------------------------
(* format_model_name applied to a name, and to its own result *)

\* format_model_name(model_name)
FormatOnce ==
    /\ formatted = << >>
    /\ formatted' = << format_model_name(format_input) >>
    /\ UNCHANGED << entry, device, device_answers, format_input, migrate_vars,
                    connection_vars, discover_vars, resolve_vars, handler_vars >>

\* format_model_name(format_model_name(model_name))
FormatTwice ==
    /\ Len(formatted) = 1
    /\ formatted' = Append(formatted, format_model_name(formatted[1]))
    /\ UNCHANGED << entry, device, device_answers, format_input, migrate_vars,
                    connection_vars, discover_vars, resolve_vars, handler_vars >>

----------------------------------------------------------------------------
(* Specifications *)

Mixer == [ index : 0 .. MaxMixers - 1, data : SUBSET MixerAttrs ]

\* mixer collections: every order of every set of mixers with distinct indexes
MixerLists ==
    { ms \in UNION { [ 1 .. k -> Mixer ] : k \in 0 .. MaxMixers } :
        \A i, j \in 1 .. Len(ms) : i # j => ms[i].index # ms[j].index }

\* the data of a device: its top-level names and, under "mixers", the mixers
Snapshots ==
    { sn \in [ data : SUBSET ValueNames, mixers : MixerLists ] :
        ATTR_MIXERS \in sn.data \/ sn.mixers = << >> }

\* two snapshots for the runs that are not about discovery
PlainSnapshots ==
    { [ data |-> { "heating_temp" }, mixers |-> << >> ],
      [ data |-> ValueNames,
        mixers |-> << [ index |-> 1, data |-> { "temp" } ],
                      [ index |-> 0, data |-> MixerAttrs ] >> ] }

DevicesOf(types, ids, subs, snapshots) ==
    { [ product |-> [ type |-> t, id |-> i ], sub_devices |-> sd,
        data |-> sn.data, mixers |-> sn.mixers ] :
        t \in types, i \in ids, sd \in subs, sn \in snapshots }

Devices == DevicesOf(ProductTypes, ProductIds, SubDeviceSets, PlainSnapshots)

MigrateIdle ==
    /\ migrate_pc = "idle"
    /\ migrate_data = << >>
    /\ migrate_result = "none"
    /\ migrate_session = "none"
    /\ migrate_entry0 = entry
    /\ migrate_applied = << >>
    /\ migrate_updates = 0
    /\ migrate_timeouts = 0
    /\ migrate_runs = 0

ConnectionIdle ==
    /\ setup_pc = "idle"
    /\ conn_device = "None"
    /\ sessions = << >>
    /\ hass_data = 0
    /\ stop_listener = 0
    /\ hass_state = "running"
    /\ hass_services = {}
    /\ alert_subscribed = 0
    /\ platforms = FALSE
    /\ setup_log = << >>
    /\ refresh_pc = [ c \in RefreshCallers |-> "idle" ]
    /\ refresh_data = [ c \in RefreshCallers |-> << >> ]
    /\ refresh_result = [ c \in RefreshCallers |-> "none" ]
    /\ refresh_entry0 = [ c \in RefreshCallers |-> None ]

DiscoverIdle == discover_result = [ status |-> "none", capabilities |-> {} ]

ResolveIdle ==
    /\ target_id = "none"
    /\ target_result = [ kind |-> "none", index |-> -1, error |-> "none" ]

ServiceIdle ==
    /\ call_pc = "idle"
    /\ call_data = NoCall
    /\ call_devices = {}
    /\ call_state = << >>
    /\ call_outcome = << >>
    /\ call_values = << >>
    /\ call_result = NoResult

\* schedule days: all night, all day, day from 06:00 to 22:00, alternating
DayPatterns ==
    { [ i \in 1 .. SlotsPerDay |-> FALSE ],
      [ i \in 1 .. SlotsPerDay |-> TRUE ],
      [ i \in 1 .. SlotsPerDay |-> 12 < i /\ i <= 44 ],
      [ i \in 1 .. SlotsPerDay |-> i % 2 = 0 ] }

\* the schedules a device may hold: none, heating only, or both types
ScheduleSets ==
    { << >> }
        \cup { [ t \in { "heating" } |-> [ w \in WEEKDAYS |-> p ] ] : p \in DayPatterns }
        \cup { [ t \in SCHEDULES |->
                   [ w \in WEEKDAYS |-> IF w = "monday" /\ t = "heating" THEN p ELSE q ] ] :
                 p, q \in DayPatterns }

ScheduleIdle ==
    /\ device_schedules = schedules
    /\ sched_pc = "idle"
    /\ sched_call = NoScheduleCall
    /\ sched_log = << >>
    /\ sched_result = NoResult
    /\ sched_schedules0 = schedules

\* the device answers, and format_model_name has not been applied
DeviceAnswers == device_answers = TRUE
FormatIdle == format_input = << >> /\ formatted = << >>

AlertsIdle ==
    /\ alert_batch = << >>
    /\ alert_fired = << >>
    /\ alert_device = None
    /\ alert_dropped = FALSE

HandlersIdle ==
    /\ ServiceIdle
    /\ schedules = << >>
    /\ ScheduleIdle
    /\ conn_kind = "tcp"
    /\ AlertsIdle

InitVersions(versions) ==
    /\ device \in Devices
    /\ \E v \in versions, m \in ModelNames :
           entry = [ version |-> v, data |-> RecordData(v, m, device) ]
    /\ MigrateIdle
    /\ ConnectionIdle
    /\ DiscoverIdle
    /\ registry = DeviceIds
    /\ ResolveIdle
    /\ HandlersIdle
    /\ DeviceAnswers
    /\ FormatIdle

\* a record of any version 1..7, migrated, set up and refreshed
Init == InitVersions(1 .. CurrentVersion)

Next == Migrate \/ Connection

Spec == Init /\ [][Next]_vars

InitAnyVersion == InitVersions(0 .. CurrentVersion + 1)

\* records of a version the migration does not know (0, 8) beside the known ones
SpecAnyVersion == InitAnyVersion /\ [][Next]_vars

\* a current record and a set-up connection to a device of any snapshot
\* the connection after a setup that succeeded
ReadyConnection ==
    /\ setup_pc = "ready"
    /\ conn_device = "device"
    /\ sessions = << [ state |-> "open", closes |-> 0 ] >>
    /\ hass_data = 1
    /\ stop_listener = 1
    /\ hass_state = "running"
    /\ hass_services = SERVICES
    /\ alert_subscribed = 1
    /\ platforms = TRUE
    /\ setup_log = << "connect" >> \o SetupSteps
    /\ refresh_pc = [ c \in RefreshCallers |-> "idle" ]
    /\ refresh_data = [ c \in RefreshCallers |-> << >> ]
    /\ refresh_result = [ c \in RefreshCallers |-> "none" ]
    /\ refresh_entry0 = [ c \in RefreshCallers |-> None ]

InitDevice(devices, registries) ==
    /\ device \in devices
    /\ \E m \in ModelNames :
           entry = [ version |-> CurrentVersion,
                     data |-> RecordData(CurrentVersion, m, device) ]
    /\ MigrateIdle
    /\ ReadyConnection
    /\ DiscoverIdle
    /\ registry \in registries
    /\ ResolveIdle
    /\ HandlersIdle
    /\ DeviceAnswers
    /\ FormatIdle

InitDiscover == InitDevice(DevicesOf({ 0 }, { 48 }, { {} }, Snapshots), { DeviceIds })

NextDiscover == DiscoverAnswered \/ DiscoverTimeout

\* capability discovery on every snapshot
SpecDiscover == InitDiscover /\ [][NextDiscover]_vars

\* snapshots that differ in the mixers only
MixerSnapshots ==
    { sn \in Snapshots :
        /\ sn.data \in { {}, { ATTR_MIXERS } }
        /\ \A i \in 1 .. Len(sn.mixers) : sn.mixers[i].data = { "temp" } }

InitResolve ==
    InitDevice(DevicesOf({ 0 }, { 48 }, { {} }, MixerSnapshots), SUBSET DeviceIds)

NextResolve == ExtractTargetDevice

\* target-device resolution for every registry content and mixer set
SpecResolve == InitResolve /\ [][NextResolve]_vars

InitLifecycle == InitVersions({ CurrentVersion })

NextLifecycle ==
    \/ SetupStart
    \/ SetupConnect
    \/ SetupConnectTimeout
    \/ SetupGetDevice
    \/ SetupTimeout
    \/ Unload
    \/ HostStop

\* setup, retry after a timeout, unload and reload, and the stop of the host
SpecLifecycle == InitLifecycle /\ [][NextLifecycle]_vars

InitSchedule ==
    /\ device \in DevicesOf({ 0 }, { 48 }, { {} }, { [ data |-> {}, mixers |-> << >> ] })
    /\ entry = [ version |-> CurrentVersion,
                 data |-> RecordData(CurrentVersion, ecoMAX, device) ]
    /\ MigrateIdle
    /\ ReadyConnection
    /\ DiscoverIdle
    /\ registry = DeviceIds
    /\ ResolveIdle
    /\ ServiceIdle
    /\ schedules \in ScheduleSets
    /\ ScheduleIdle
    /\ conn_kind = "tcp"
    /\ AlertsIdle
    /\ DeviceAnswers
    /\ FormatIdle

NextSchedule == SetSchedule \/ GetSchedule

\* one set_schedule call, then one get_schedule call, on every schedule set
SpecSchedule == InitSchedule /\ [][NextSchedule]_vars

InitAlerts ==
    /\ device \in DevicesOf({ 0 }, { 48 }, { {} }, { [ data |-> {}, mixers |-> << >> ] })
    /\ entry = [ version |-> CurrentVersion,
                 data |-> RecordData(CurrentVersion, ecoMAX, device) ]
    /\ MigrateIdle
    /\ ReadyConnection
    /\ DiscoverIdle
    /\ registry \in { DeviceIds, DeviceIds \ { "main" } }
    /\ ResolveIdle
    /\ ServiceIdle
    /\ schedules = << >>
    /\ ScheduleIdle
    /\ conn_kind \in { "tcp", "serial" }
    /\ AlertsIdle
    /\ DeviceAnswers
    /\ FormatIdle

NextAlerts == DispatchAlerts \/ RegisterDevice

\* alert changes dispatched with and without the registry device
SpecAlerts == InitAlerts /\ [][NextAlerts]_vars

\* the devices the parameter services are called on: no mixer, or two mixers
ServiceSnapshots == { sn \in MixerSnapshots : Len(sn.mixers) # 1 }

InitService ==
    InitDevice(DevicesOf({ 0 }, { 48 }, { {} }, ServiceSnapshots), { DeviceIds })

NextService ==
    \/ GetParameterStart
    \/ GetParameterAnswer
    \/ SetParameterStart
    \/ SetParameterAnswer

\* one get_parameter or set_parameter call on every selection of device ids
SpecService == InitService /\ [][NextService]_vars

InitRefresh == InitDevice(DevicesOf({ 0 }, { 48 }, { {} }, Snapshots), { DeviceIds })

NextRefresh ==
    \E c \in RefreshCallers : RefreshStart(c) \/ RefreshUpdate(c) \/ RefreshTimeout(c)

\* calls of async_update_device_capabilities by several callers on a
\* connection that is set up
SpecRefresh == InitRefresh /\ [][NextRefresh]_vars

\* a record of the first or of the current version that is migrated and set up,
\* or a connection that is set up, with a device that answers or one that
\* never answers
InitTimeouts ==
    /\ device \in DevicesOf({ 0 }, { 48 }, { {} }, ServiceSnapshots)
    /\ \E v \in { 1, CurrentVersion } :
           entry = [ version |-> v, data |-> RecordData(v, ecoMAX, device) ]
    /\ MigrateIdle
    /\ ConnectionIdle \/ (entry.version = CurrentVersion /\ ReadyConnection)
    /\ DiscoverIdle
    /\ registry = DeviceIds
    /\ ResolveIdle
    /\ HandlersIdle
    /\ device_answers \in BOOLEAN
    /\ FormatIdle

Setup ==
    \/ SetupStart
    \/ SetupConnect
    \/ SetupConnectTimeout
    \/ SetupGetDevice
    \/ SetupTimeout

NextTimeouts == Migrate \/ Setup \/ NextDiscover \/ NextService

\* migration, setup, capability discovery and the parameter services; the
\* event loop runs every coroutine that can go on, and a call with a timeout
\* ends with the answer or with the timeout
SpecTimeouts ==
    /\ InitTimeouts
    /\ [][NextTimeouts]_vars
    /\ WF_vars(Migrate)
    /\ WF_vars(Setup)
    /\ WF_vars(NextDiscover)
    /\ WF_vars(NextService)

\* the characters of the names: two letters, a digit, the blank and a dash
NameChars == { "E", "M", "3", " ", "-" }

\* every name of up to MaxNameLen of these characters, and names of the
\* devices with a lower-case family, a longer family and no digits
FormatInputs ==
    UNION { [ 1 .. n -> NameChars ] : n \in 0 .. MaxNameLen }
        \cup ModelNames
        \cup { << "e", "m", "3", "5", "0", "P" >>,
               << "E", "M", " ", " ", "3", "3", "3", "3" >>,
               << "e", "c", "o", "M", "A", "X", " ", "8", "6", "0", "P", "3" >> }

InitFormat ==
    /\ device \in DevicesOf({ 0 }, { 48 }, { {} }, { [ data |-> {}, mixers |-> << >> ] })
    /\ entry = [ version |-> CurrentVersion,
                 data |-> RecordData(CurrentVersion, ecoMAX, device) ]
    /\ MigrateIdle
    /\ ConnectionIdle
    /\ DiscoverIdle
    /\ registry = DeviceIds
    /\ ResolveIdle
    /\ HandlersIdle
    /\ DeviceAnswers
    /\ format_input \in FormatInputs
    /\ formatted = << >>

NextFormat == FormatOnce \/ FormatTwice

\* format_model_name applied once and twice to every name
SpecFormat == InitFormat /\ [][NextFormat]_vars

----------------------------------------------------------------------------
(* The migration table of the specification, for the claims *)

Buckets == { << { 1, 2 }, 3 >>, << { 3 }, 4 >>, << { 4, 5 }, 6 >>, << { 6 }, 7 >> }

InBucket(v) == \E b \in Buckets : v \in b[1]
ToOf(v) == (CHOOSE b \in Buckets : v \in b[1])[2]

\* the transitions the table prescribes for a record entering at version v
RECURSIVE Chain(_)
Chain(v) == IF InBucket(v) THEN << << v, ToOf(v) >> >> \o Chain(ToOf(v)) ELSE << >>

IsPrefix(a, b) == Len(a) <= Len(b) /\ SubSeq(b, 1, Len(a)) = a

RunEnded == migrate_pc = "done"

----------------------------------------------------------------------------
(* Claims *)

\* C1 (as claimed): a run in which a device query timed out, on a record that
\* entered at a version 1..6, returns False and leaves the record, version
\* and data, as it was when the run started.
C1_TimeoutLeavesRecordUntouched ==
    (RunEnded /\ migrate_timeouts > 0 /\ migrate_entry0.version \in 1 .. 6)
        => /\ migrate_result = "False"
           /\ entry.version = migrate_entry0.version
           /\ entry.data = migrate_entry0.data

\* C2 (as claimed): a run on a record whose version is neither in 1..6 nor 7
\* applies no transition, persists nothing, leaves the record unmodified and
\* does not report success.
C2_UnsupportedVersionIsAnError ==
    (RunEnded /\ migrate_entry0.version \notin 1 .. CurrentVersion)
        => /\ migrate_result # "True"
           /\ migrate_applied = << >>
           /\ migrate_updates = 0
           /\ entry = migrate_entry0

\* C3: at every point of a run on a record that entered at a version 1..7 the
\* transitions applied so far are a prefix of the ones the table prescribes for
\* that version, in the table's order; a run in which no query timed out ends
\* with all of them applied, version 7 and the result True (none at all for a
\* record that entered at 7).
C3_EligibleTransitionsInOrder ==
    migrate_entry0.version \in 1 .. CurrentVersion
        => /\ IsPrefix(migrate_applied, Chain(migrate_entry0.version))
           /\ (RunEnded /\ migrate_timeouts = 0)
                  => /\ migrate_applied = Chain(migrate_entry0.version)
                     /\ entry.version = CurrentVersion
                     /\ migrate_result = "True"

C3_Witness ==
    /\ RunEnded
    /\ migrate_timeouts = 0
    /\ migrate_entry0.version = 1
    /\ migrate_applied = << << 1, 3 >>, << 3, 4 >>, << 4, 6 >>, << 6, 7 >> >>
    /\ migrate_result = "True"

\* C4: the record a successful run persists. From version 1: product_type from
\* the device, the model reformatted ("EM350P2-ZF" becomes "ecoMAX 350P2-ZF"),
\* capabilities removed, sub_devices and product_id from the device, uid and
\* software as they were. From version 6: the record it started from with
\* product_id added and nothing else changed.
C4_PersistedRecord ==
    (RunEnded /\ migrate_result = "True")
        => /\ migrate_entry0.version = 1
               => /\ DOMAIN entry.data =
                         { CONF_UID, CONF_SOFTWARE, CONF_MODEL, CONF_PRODUCT_TYPE,
                           CONF_SUB_DEVICES, CONF_PRODUCT_ID }
                  /\ entry.data[CONF_PRODUCT_TYPE] = device.product.type
                  /\ entry.data[CONF_MODEL] =
                         format_model_name(migrate_entry0.data[CONF_MODEL])
                  /\ (migrate_entry0.data[CONF_MODEL] =
                          << "E", "M", "3", "5", "0", "P", "2", "-", "Z", "F" >>)
                         => entry.data[CONF_MODEL] =
                                << "e", "c", "o", "M", "A", "X", " ",
                                   "3", "5", "0", "P", "2", "-", "Z", "F" >>
                  /\ (migrate_entry0.data[CONF_MODEL] =
                          << "u", "n", "k", "n", "o", "w", "n" >>)
                         => entry.data[CONF_MODEL] = migrate_entry0.data[CONF_MODEL]
                  /\ entry.data[CONF_SUB_DEVICES] = async_get_sub_devices(device)
                  /\ entry.data[CONF_PRODUCT_ID] = device.product.id
                  /\ \A f \in { CONF_UID, CONF_SOFTWARE } :
                         entry.data[f] = migrate_entry0.data[f]
           /\ migrate_entry0.version = 6
               => /\ DOMAIN entry.data = DOMAIN migrate_entry0.data \cup { CONF_PRODUCT_ID }
                  /\ entry.data[CONF_PRODUCT_ID] = device.product.id
                  /\ \A f \in DOMAIN migrate_entry0.data \ { CONF_PRODUCT_ID } :
                         entry.data[f] = migrate_entry0.data[f]

C4_Witness ==
    /\ RunEnded
    /\ migrate_result = "True"
    /\ migrate_entry0.version = 1
    /\ CONF_CAPABILITIES \in DOMAIN migrate_entry0.data
    /\ migrate_entry0.data[CONF_MODEL] =
           << "E", "M", "3", "5", "0", "P", "2", "-", "Z", "F" >>

\* C5 (as claimed): async_update_entry is called once, at the end of a run that
\* succeeds and in no other; a run that fails changes nothing of the record,
\* neither data nor version.
C5_PersistsAtomically ==
    /\ migrate_updates > 0 => (RunEnded \/ migrate_pc = "idle") /\ migrate_result = "True"
    /\ (RunEnded /\ migrate_result = "True") => migrate_updates = 1
    /\ (RunEnded /\ migrate_result = "False")
           => migrate_updates = 0 /\ entry = migrate_entry0

\* C6: the record's version is always in 1..7; no step lowers it, and a step
\* that changes it takes it from a version of one From bucket to that bucket's
\* To version (3, 4, 6 or 7), which is larger.
C6_VersionMonotone ==
    /\ [](entry.version \in 1 .. CurrentVersion)
    /\ [][ /\ entry'.version >= entry.version
           /\ entry'.version # entry.version
                  => /\ InBucket(entry.version)
                     /\ entry'.version = ToOf(entry.version)
                     /\ entry'.version > entry.version ]_vars

C6_Witness ==
    /\ migrate_pc = "if_6"
    /\ migrate_entry0.version = 4
    /\ entry.version = 6

\* C7 (as claimed): in every state of the record, whether just created, migrated
\* or refreshed, and whether or not the connection is set up, each of the
\* accessors model, uid, software and capabilities returns the stored value
\* and none fails.
C7_AccessorsNeverFail ==
    /\ model.ok /\ model.value = entry.data[CONF_MODEL]
    /\ uid.ok /\ uid.value = entry.data[CONF_UID]
    /\ software.ok /\ software.value = entry.data[CONF_SOFTWARE]
    /\ capabilities.ok /\ capabilities.value = entry.data[CONF_CAPABILITIES]

\* the mixers of a snapshot, whatever their order
MixerSet(dev) == { dev.mixers[k] : k \in 1 .. Len(dev.mixers) }

\* C8: the discovered set is exactly the top-level names, a token
\* mixer_{i}_{attr} for each attribute of each mixer present, and water_heater
\* when water_heater_temp is there; a mixer token is in it iff that mixer is
\* present and exposes that attribute, water_heater iff water_heater_temp is
\* present; every other order of the same mixers gives the same set.
C8_DiscoveredSet ==
    discover_result.status = "ok"
        => LET found == discover_result.capabilities
           IN  /\ found =
                      device.data
                          \cup UNION { { MixerToken(m.index, x) : x \in m.data } :
                                         m \in MixerSet(device) }
                          \cup (IF ATTR_WATER_HEATER_TEMP \in device.data
                                THEN { ATTR_WATER_HEATER } ELSE {})
               /\ \A i \in 0 .. MaxMixers, x \in MixerAttrs :
                      MixerToken(i, x) \in found
                          <=> \E m \in MixerSet(device) : m.index = i /\ x \in m.data
               /\ "mixer_0_temp" \in found
                      <=> \E m \in MixerSet(device) : m.index = 0 /\ "temp" \in m.data
               /\ "mixer_1_target" \in found
                      <=> \E m \in MixerSet(device) : m.index = 1 /\ "target" \in m.data
               /\ ATTR_WATER_HEATER \in found <=> ATTR_WATER_HEATER_TEMP \in device.data
               /\ "water_heater" \in found <=> "water_heater_temp" \in device.data
               /\ \A ms \in MixerLists :
                      (Len(ms) = Len(device.mixers)
                          /\ { ms[k] : k \in 1 .. Len(ms) } = MixerSet(device))
                          => async_get_device_capabilities([ device EXCEPT !.mixers = ms ])
                                 = found

C8_Witness ==
    /\ discover_result.status = "ok"
    /\ ATTR_WATER_HEATER_TEMP \in device.data
    /\ Len(device.mixers) = 2
    /\ device.mixers[1].index = 1
    /\ device.mixers[1].data = { "target" }
    /\ device.mixers[2].data = { "temp" }
    /\ discover_result.capabilities =
           device.data \cup { "mixer_1_target", "mixer_0_temp", "water_heater" }

\* C9: the step in which a running refresh ends without a discovered set ends
\* it with the timeout error and leaves the record as it is, capabilities and
\* every other field.
C9_RefreshTimeoutKeepsRecord ==
    [][ (/\ refresh_pc[Caller] = "discovering"
         /\ refresh_pc'[Caller] = "idle"
         /\ refresh_result'[Caller] # "ok")
            => /\ refresh_result'[Caller] = "TimeoutError"
               /\ entry' = entry
               /\ entry' = refresh_entry0[Caller] ]_vars

C9_Witness ==
    /\ refresh_pc[Caller] = "idle"
    /\ refresh_result[Caller] = "TimeoutError"
    /\ entry = refresh_entry0[Caller]
    /\ capabilities.ok
    /\ capabilities.value # async_get_device_capabilities(device)

\* the mixer index a registry identifier of the model encodes, -1 for none
EncodedMixer ==
    [ d \in DeviceIds |->
        CASE d = "mixer_0" -> 0
          [] d = "mixer_1" -> 1
          [] d = "mixer_2" -> 2
          [] d = "mixer_10" -> 10
          [] d = "dashed_1" -> 1
          [] d = "dashed_2" -> 1
          [] OTHER -> -1 ]

\* C10 (as claimed): a call never raises; it returns mixer i when the
\* identifier encodes mixer index i and the connection exposes mixer i, and the
\* main device in every other case, among them an id the registry does not
\* know and an index part that is no integer.
C10_ResolveNeverRaises ==
    target_result.kind # "none"
        => LET i == EncodedMixer[target_id]
               is_mixer ==
                   target_id \in registry /\ \E m \in MixerSet(device) : m.index = i
           IN  /\ target_result.kind # "raise"
               /\ is_mixer => target_result = Returned("mixer", i)
               /\ ~is_mixer => target_result = Returned("ecomax", -1)

----------------------------------------------------------------------------
(* Claims on the parameter services *)

\* a finished call of the service `kind` whose devices resolved
Finished(kind) == call_pc = "done" /\ call_data.kind = kind /\ call_data.resolved

Failures == { "ParameterNotFoundError", "TimeoutError" }

\* C11 (as claimed): a finished set-parameter call over several resolved
\* devices has attempted every device, whatever the other devices answered
\* (not found, timeout, value rejected), and has raised a user-facing error
\* only if no device accepted the value.
C11_SetFailuresAreExcluded ==
    (Finished("set") /\ Cardinality(call_devices) >= 2)
        => /\ \A d \in call_devices : call_state[d] = "answered"
           /\ call_result.status = "raised"
                  => \A d \in call_devices : call_outcome[d] # "True"

\* the result entry of device d, whose parameter was found
EntryOf(d) ==
    [ none |-> FALSE, name |-> call_data.name, value |-> call_outcome[d],
      device_type |-> d.kind,
      device_index |-> IF d.kind = "mixer" THEN d.index + 1 ELSE 0 ]

\* C12: a finished get-parameter call has queried every resolved device; it
\* returns one entry for exactly the devices on which the parameter was found,
\* devices answering not-found or timing out being omitted, and it raises a
\* user-facing error if and only if no device had the parameter.
C12_GetReturnsTheFoundOnes ==
    Finished("get")
        => LET found == { d \in call_devices : call_outcome[d] \notin Failures }
               parameters == call_result.parameters
           IN  /\ \A d \in call_devices : call_state[d] = "answered"
               /\ call_result.status \in { "returned", "raised" }
               /\ call_result.status = "raised" <=> found = {}
               /\ call_result.status = "raised" => call_result.error = "HomeAssistantError"
               /\ Len(parameters) = Cardinality(found)
               /\ \A d \in found : \E i \in 1 .. Len(parameters) : parameters[i] = EntryOf(d)

\* a call on three devices: one has the parameter, one has not, one timed out
C12_Witness ==
    /\ Finished("get")
    /\ Cardinality(call_devices) = 3
    /\ \E d \in call_devices : call_outcome[d] = "ParameterNotFoundError"
    /\ \E d \in call_devices : call_outcome[d] = "TimeoutError"
    /\ Len(call_result.parameters) = 1

\* C13 (as claimed): while a get-parameter or set-parameter call on several
\* devices is waiting for a device to answer, the calls to all its devices
\* have been issued: no device waits for another device's answer.
C13_CallsRunConcurrently ==
    (call_pc = "running" /\ Cardinality(call_devices) >= 2)
        => \A d \in call_devices : call_state[d] # "waiting"

----------------------------------------------------------------------------
(* Claims on the session life cycle *)

OpenSessions == { i \in 1 .. Len(sessions) : sessions[i].state = "open" }

\* C14 (as claimed): at most one session is open in every reachable state; no
\* session is closed a second time; and once the entry is torn down (setup
\* failed with a timeout, the entry unloaded, or the host stopped) no session
\* that was opened is left open.
C14_OneSessionClosedOnce ==
    /\ Cardinality(OpenSessions) <= 1
    /\ \A i \in 1 .. Len(sessions) : sessions[i].closes <= 1
    /\ (setup_pc = "idle" \/ hass_state = "stopped") => OpenSessions = {}

----------------------------------------------------------------------------
(* Claims on the schedule services *)

\* a finished set_schedule call on a schedule type the device has
SetDone ==
    /\ sched_pc = "set_done"
    /\ sched_call.type \in DOMAIN sched_schedules0

SetReturned == SetDone /\ sched_result.status = "returned"

Requested == { sched_call.weekdays[i] : i \in 1 .. Len(sched_call.weekdays) }

NoCommit == \A i \in 1 .. Len(sched_log) : sched_log[i] # Commit

\* C15: a set_schedule call that succeeds has applied the edit to every
\* requested weekday, in order, and then called commit, once and last; a call
\* that fails has not called commit; and the schedules of the controller
\* change only with a commit, after which they hold every edit.
C15_EditThenCommit ==
    SetDone
        => /\ sched_result.status = "returned"
                  => /\ sched_log =
                            [ i \in 1 .. Len(sched_call.weekdays) + 1 |->
                                IF i <= Len(sched_call.weekdays)
                                THEN EditOf(sched_call.weekdays[i])
                                ELSE Commit ]
                     /\ device_schedules = schedules
           /\ sched_result.status # "returned" => NoCommit
           /\ NoCommit => device_schedules = sched_schedules0

\* a successful edit of two weekdays that changed the schedule
C15_Witness ==
    /\ SetReturned
    /\ Len(sched_call.weekdays) >= 2
    /\ schedules # sched_schedules0
    /\ device_schedules = schedules

\* the time inputs whose start..end part the edit cannot parse: "8:5:7" gives "8:"
Unparsable == { << "8", ":", "5", ":", "7" >> }

FailedForType ==
    /\ sched_result.status = "raised"
    /\ sched_result.error = "HomeAssistantError"
    /\ sched_result.message =
           "Error while trying to parse time interval for " \o sched_call.type \o " schedule"

MinuteOf(time) ==
    LET hm == CHOOSE hm \in (0 .. 23) \X (0 .. 59) : Clock(hm[1], hm[2], 0) = time
    IN  60 * hm[1] + hm[2]

\* a day with the preset on the slots whose start lies in [from, to)
Marked(day, preset, from, to) ==
    [ i \in 1 .. 48 |->
        IF from <= 30 * (i - 1) /\ 30 * (i - 1) < to THEN preset = "day" ELSE day[i] ]

\* the schedule type of the call is as `day_of` says on the requested weekdays
\* and as before the call everywhere else
OnlyRequestedAre(day_of(_)) ==
    /\ \A t \in DOMAIN schedules : t # sched_call.type => schedules[t] = sched_schedules0[t]
    /\ \A w \in WEEKDAYS :
           schedules[sched_call.type][w] =
               IF w \in Requested THEN day_of(sched_schedules0[sched_call.type][w])
               ELSE sched_schedules0[sched_call.type][w]

DayFrom8To10 ==
    /\ SetReturned
    /\ sched_call.weekdays # << >>
    /\ sched_call.preset = "day"
    /\ sched_call.start = Clock(8, 0, 0)
    /\ sched_call.end = Clock(10, 0, 0)

GetReturned ==
    /\ sched_pc = "done"
    /\ sched_result.status = "returned"

\* the timestamp of slot i: i * 30 minutes after 00:00:00, with and without seconds
TwoDigits(n) == ToString(n \div 10) \o ToString(n % 10)
StampHM(i) == TwoDigits((30 * i) \div 60) \o ":" \o TwoDigits((30 * i) % 60)
StampHMS(i) == StampHM(i) \o ":00"

\* every returned day has exactly 48 keys, the i-th being stamp(i), mapped to
\* "day" where slot i is true and to "night" where it is false, and the call
\* left the schedules as they were
DecodedWith(stamp(_)) ==
    /\ schedules = sched_schedules0
    /\ \A w \in DOMAIN sched_result.parameters :
           LET decoded == sched_result.parameters[w]
               day == schedules[sched_call.type][w]
           IN  /\ Cardinality(DOMAIN decoded) = 48
               /\ \A i \in 0 .. 47 :
                      /\ stamp(i) \in DOMAIN decoded
                      /\ decoded[stamp(i)] = IF day[i + 1] THEN "day" ELSE "night"

----------------------------------------------------------------------------
(* Claims on the alert events *)

\* the timestamp of a datetime of the model, "2024-01-DD HH:MM:SS"
DateStamp(datetime) ==
    "2024-01-" \o TwoDigits(datetime.day) \o " "
        \o TwoDigits(datetime.seconds \div 3600) \o ":"
        \o TwoDigits((datetime.seconds \div 60) % 60) \o ":"
        \o TwoDigits(datetime.seconds % 60)

Dispatched == alert_batch # << >>
Resolves == alert_device # None

\* C20: for an alert change whose registry device resolves, exactly one event
\* is emitted per alert of the list, in order, carrying the connection name,
\* the device id, the alert code and the start timestamp; the event carries
\* an end timestamp if and only if the alert has concluded.
C20_OneEventPerAlert ==
    (Dispatched /\ Resolves)
        => /\ Len(alert_fired) = Len(alert_batch)
           /\ \A i \in 1 .. Len(alert_batch) :
                  LET event == alert_fired[i]
                      alert == alert_batch[i]
                  IN  /\ event.name = IF conn_kind = "tcp" THEN "192.168.1.2" ELSE "/dev/ttyUSB0"
                      /\ event.device_id = "main"
                      /\ event.code = alert.code
                      /\ event.from = DateStamp(alert.from_dt)
                      /\ "to" \in DOMAIN event <=> alert.to_dt # None
                      /\ alert.to_dt # None => event.to = DateStamp(alert.to_dt)
                      /\ DOMAIN event \subseteq { "name", "device_id", "code", "from", "to" }

\* a list with one ongoing and one concluded alert gave two events, only the
\* concluded one with a to field
C20_Witness ==
    /\ Dispatched
    /\ Resolves
    /\ Len(alert_batch) = 2
    /\ alert_batch[1].to_dt = None
    /\ alert_batch[2].to_dt # None
    /\ Len(alert_fired) = 2
    /\ "to" \notin DOMAIN alert_fired[1]
    /\ "to" \in DOMAIN alert_fired[2]

\* C21: a change dispatched while the registry has no device for the
\* connection emits no event at all; a later change, dispatched once the device
\* is registered, emits one event per alert of that change and nothing of the
\* dropped one.
C21_UnresolvedBatchDropped ==
    /\ (Dispatched /\ ~Resolves) => alert_fired = << >>
    /\ (alert_dropped /\ Resolves)
           => /\ Len(alert_fired) = Len(alert_batch)
              /\ \A i \in 1 .. Len(alert_batch) :
                     /\ alert_fired[i].code = alert_batch[i].code
                     /\ alert_fired[i].from = DateStamp(alert_batch[i].from_dt)
                     /\ alert_fired[i].device_id = "main"

\* a change of two alerts dispatched after an earlier change was dropped
C21_Witness ==
    /\ alert_dropped
    /\ Resolves
    /\ Len(alert_batch) = 2
    /\ Len(alert_fired) = 2

----------------------------------------------------------------------------
(* Claims on the order and the failure of entry setup *)

\* where a step stands in the log of the last setup run, 0 if it was not taken
StepAt(step) ==
    IF \E i \in 1 .. Len(setup_log) : setup_log[i] = step
    THEN CHOOSE i \in 1 .. Len(setup_log) : setup_log[i] = step
    ELSE 0

IsPrefixOf(s, t) == Len(s) <= Len(t) /\ s = SubSeq(t, 1, Len(s))

C26_TimeoutLeavesNothingRegistered ==
    [][ (SetupConnectTimeout \/ SetupTimeout) =>
            /\ setup_pc' = "idle"
            /\ hass_services' = {}
            /\ alert_subscribed' = 0
            /\ hass_data' = 0
            /\ ~ platforms' ]_vars

----------------------------------------------------------------------------
(* Claims on the session of a migration run *)

\* C27 (as claimed): when a migration run has returned, with True or with
\* False after a device timeout, the session it opened at its start is closed.
C27_MigrationClosesItsSession ==
    migrate_pc = "done" => migrate_session = "closed"

----------------------------------------------------------------------------
(* Claims on format_model_name *)

\* the characters of s from position i on
From(s, i) == SubSeq(s, i, Len(s))

\* the name is letters, blanks, at least three digits and a rest of at least
\* one character; l letters and b blanks
HasForm(s, l, b) ==
    /\ l >= 1
    /\ \A i \in 1 .. l : IsLetter(s[i])
    /\ \A i \in l + 1 .. l + b : IsSpace(s[i])
    /\ \E d \in MinModelDigits .. Len(s) :
           /\ l + b + d < Len(s)
           /\ \A i \in l + b + 1 .. l + b + d : IsDigit(s[i])

\* what the claim gives for the name: the family (ecoMAX for EM), one blank,
\* the digits and the rest; the name itself when it has not the form
Expected(s) ==
    IF \E l, b \in 0 .. Len(s) : l + b <= Len(s) /\ HasForm(s, l, b)
    THEN LET lb == CHOOSE lb \in (0 .. Len(s)) \X (0 .. Len(s)) :
                       lb[1] + lb[2] <= Len(s) /\ HasForm(s, lb[1], lb[2])
             family == SubSeq(s, 1, lb[1])
         IN  (IF family = EM THEN ecoMAX ELSE family)
                 \o << " " >> \o From(s, lb[1] + lb[2] + 1)
    ELSE s

EM350P2_ZF == << "E", "M", "3", "5", "0", "P", "2", "-", "Z", "F" >>
ecoMAX_350P2_ZF ==
    << "e", "c", "o", "M", "A", "X", " ", "3", "5", "0", "P", "2", "-", "Z", "F" >>
unknown == << "u", "n", "k", "n", "o", "w", "n" >>

\* C25: format_model_name gives, for a name of letters, optional blanks, three
\* or more digits and a rest, the family (ecoMAX for EM), one blank, the digits
\* and the rest, and gives every other name back unchanged; EM350P2-ZF gives
\* ecoMAX 350P2-ZF and unknown gives unknown; applied to its own result it
\* gives that result again.
C25_FormatModelName ==
    /\ Len(formatted) >= 1 =>
           /\ formatted[1] = Expected(format_input)
           /\ format_input = EM350P2_ZF => formatted[1] = ecoMAX_350P2_ZF
           /\ format_input = unknown => formatted[1] = unknown
    /\ Len(formatted) = 2 => formatted[2] = formatted[1]

\* a name with the family EM and blanks before the digits, formatted twice
C25_Witness ==
    /\ Len(formatted) = 2
    /\ format_input = << "E", "M", " ", " ", "3", "3", "3", "3" >>
    /\ formatted[2] = << "e", "c", "o", "M", "A", "X", " ", "3", "3", "3", "3" >>

----------------------------------------------------------------------------
(* Claims on concurrent updates of the record *)

\* caller c's refresh writes the record in this step
RefreshWrites(c) ==
    /\ refresh_pc[c] = "discovering"
    /\ refresh_pc'[c] = "idle"
    /\ refresh_result'[c] = "ok"

\* C23 (as claimed): a capability refresh is atomic: when it writes the record
\* back, the record is still the one it read, no other update having come
\* between, and its write changes the capabilities field only.
C23_RefreshIsAtomic ==
    [][ \A c \in RefreshCallers :
            RefreshWrites(c) =>
                /\ entry = refresh_entry0[c]
                /\ entry'.version = entry.version
                /\ DOMAIN entry'.data = DOMAIN entry.data \cup { CONF_CAPABILITIES }
                /\ \A f \in DOMAIN entry.data \ { CONF_CAPABILITIES } :
                       entry'.data[f] = entry.data[f] ]_vars

----------------------------------------------------------------------------
(* Claims on the termination of the calls to the device *)

\* a migration run that has started returns
MigrationTerminates == (migrate_pc \notin { "idle", "done" }) ~> (migrate_pc = "done")

\* a setup that has started ends, ready or with the not-ready error
SetupTerminates == (setup_pc \in { "connect", "get_device" }) ~> (setup_pc \in { "idle", "ready" })

\* the capability discovery ends with a set or with the timeout error
DiscoveryTerminates == <>(discover_result.status # "none")

\* a get-parameter or set-parameter call that awaits a device ends
ServiceTerminates == (call_pc = "running") ~> (call_pc = "done")

\* C24 (as claimed): migration, setup, capability discovery, get-parameter and
\* set-parameter each end with a result or an error, also when the device
\* never answers.
C24_DeviceCallsTerminate ==
    /\ MigrationTerminates
    /\ SetupTerminates
    /\ DiscoveryTerminates
    /\ ServiceTerminates
====
